---- MODULE Spec2Model ----
(***************************************************************************)
(* Model of RAG_Application_Demo.py: a Streamlit chat page over a          *)
(* retrieval-augmented-generation pipeline.                                *)
(*                                                                         *)
(*   Spec       the page: script runs triggered by page loads, form        *)
(*              submissions and the "New Session" button, over the         *)
(*              process-wide st.cache_resource cache and the per-session   *)
(*              st.session_state.                                          *)
(*   SpecDocs   prepare_documents called on bounded data frames.           *)
(*   SpecIndex  query_rag called with an explicit top_k on bounded index   *)
(*              bundles.                                                   *)
(*                                                                         *)
(* Python strings that the code assembles (documents) are sequences of     *)
(* one-character strings; strings that it only passes around (questions,   *)
(* answers, exception texts) are TLA+ strings.                             *)
(***************************************************************************)
EXTENDS Integers, Sequences, FiniteSets, TLC

VARIABLES
    excel,        \* the file EXCEL_FILE: [readable, df]
    cache,        \* st.cache_resource entry of load_and_index_data
    hasHistory,   \* "history" in st.session_state
    history,      \* st.session_state.history
    started,      \* the page has been rendered once (its widgets exist)
    queries,      \* the "Queries" metric drawn by the last script run
    notice,       \* what the last script run drew: success box, error box
    calls,        \* external and library calls made by the last event, in order
    buildCount,   \* executions of the body of load_and_index_data so far
    accepted,     \* queries that passed "submit and user_input" and "data_loaded" since the history was last emptied
    buildError,   \* the exception load_and_index_data caught when it ran ("" if none)
    lastEvent,    \* the last user event and how the script handled it
    call          \* SpecDocs / SpecIndex: the function call made and its result

vars == <<excel, cache, hasHistory, history, started, queries, notice, calls,
          buildCount, accepted, buildError, lastEvent, call>>

----------------------------------------------------------------------------
(* Bounds *)

MaxRows == 5          \* Spec: rows of the spreadsheet, 0..MaxRows
MaxQueries == 2       \* Spec: accepted queries kept in one history
MaxBuilds == 2        \* Spec: buildCount saturates here
MaxDocRows == 2       \* SpecDocs: rows of the data frame
MaxCols == 2          \* SpecDocs: columns of the data frame
MaxDocs == 6          \* SpecIndex: documents in the index
SmallDocs == 3        \* SpecIndex: up to here every embedding matrix is tried
MaxK == 6             \* SpecIndex: top_k ranges over 0..MaxK

----------------------------------------------------------------------------
(* Python values and strings *)

IntV(n) == [t |-> "int", i |-> n, s |-> <<>>]
StrV(s) == [t |-> "str", i |-> 0, s |-> s]

DigitChar(d) ==
    CASE d = 0 -> "0" [] d = 1 -> "1" [] d = 2 -> "2" [] d = 3 -> "3"
      [] d = 4 -> "4" [] d = 5 -> "5" [] d = 6 -> "6" [] d = 7 -> "7"
      [] d = 8 -> "8" [] d = 9 -> "9"

RECURSIVE NatStr(_)
NatStr(n) ==
    IF n < 10 THEN <<DigitChar(n)>>
    ELSE NatStr(n \div 10) \o <<DigitChar(n % 10)>>

\* format(value, "") inside an f-string: str(value)
PyStr(v) ==
    IF v.t = "int"
    THEN IF v.i < 0 THEN <<"-">> \o NatStr(-v.i) ELSE NatStr(v.i)
    ELSE v.s

\* sep.join(parts)
RECURSIVE Join(_, _)
Join(sep, parts) ==
    IF Len(parts) = 0 THEN <<>>
    ELSE IF Len(parts) = 1 THEN parts[1]
    ELSE parts[1] \o sep \o Join(sep, Tail(parts))

FieldSep == <<":", " ">>
Delimiter == <<" ", "|", " ">>
Newline == <<"\n">>

----------------------------------------------------------------------------
(* prepare_documents *)

\* the inner loop: parts.append(f"{col}: {row[col]}") for col in df.columns
RowParts(df, row) ==
    [j \in 1..Len(df.columns) |->
        df.columns[j] \o FieldSep \o PyStr(row[df.columns[j]])]

\* (the parts joined by a comma)
RowDocumentCommas(df, row) == Join(<<",", " ">>, RowParts(df, row))

RowDocument(df, row) == Join(Delimiter, RowParts(df, row))

prepare_documents(df) ==
    [i \in 1..Len(df.rows) |-> RowDocument(df, df.rows[i])]

----------------------------------------------------------------------------
(* The hosted services *)

\* Embedding vectors the service may return (integer coordinates; the code
\* never assumes unit length).
Vecs == {<<3, 0>>, <<1, 1>>, <<-1, 1>>}

Answers == {"a1"}

Call(fn, caller) == [fn |-> fn, caller |-> caller]

\* get_embedding(text): client.embeddings.create either raises or returns a
\* vector; the service is not known to be deterministic.
get_embedding(text) ==
    {[raised |-> FALSE, embedding |-> v] : v \in Vecs}
        \cup {[raised |-> TRUE, embedding |-> <<>>]}

\* client.chat.completions.create(...).choices[0].message.content
chat_completion(context, question) ==
    {[raised |-> FALSE, content |-> a] : a \in Answers}
        \cup {[raised |-> TRUE, content |-> ""]}

----------------------------------------------------------------------------
(* sklearn.neighbors.NearestNeighbors, metric="cosine" *)

Dot(a, b) == a[1] * b[1] + a[2] * b[2]
NormSq(a) == Dot(a, a)
Sgn(x) == IF x < 0 THEN -1 ELSE IF x > 0 THEN 1 ELSE 0

\* The cosine distance 1 - cos(q, x), kept exact: cos = sgn * sqrt(|num| / den).
cosine_distance(q, x) ==
    [num |-> Sgn(Dot(q, x)) * Dot(q, x) * Dot(q, x),
     den |-> NormSq(q) * NormSq(x)]

\* d1 <= d2 as distances, i.e. cos1 >= cos2
DistLeq(d1, d2) == d1.num * d2.den >= d2.num * d1.den

NoneIndex == [n_neighbors |-> 0, metric |-> "none", fit_X |-> <<>>]

\* NearestNeighbors(n_neighbors=5, metric="cosine").fit(X): fit rejects an
\* empty array; n_neighbors is only stored.
NNeighbors == 5

nn_fit(X) ==
    IF Len(X) = 0
    THEN [raised |-> TRUE, nn |-> NoneIndex]
    ELSE [raised |-> FALSE,
          nn |-> [n_neighbors |-> NNeighbors, metric |-> "cosine", fit_X |-> X]]

\* (the k nearest left in the order the partition found them)
RECURSIVE NearestUnsorted(_, _, _, _)
NearestUnsorted(fitX, q, rem, k) ==
    IF k = 0 THEN {<<>>}
    ELSE LET closest == {i \in rem : \A j \in rem :
                            DistLeq(cosine_distance(q, fitX[i + 1]),
                                    cosine_distance(q, fitX[j + 1]))}
         IN UNION {{s \o <<i>> : s \in NearestUnsorted(fitX, q, rem \ {i}, k - 1)} :
                   i \in closest}

\* The orders in which the k nearest of the samples `rem` may come back:
\* ascending distance, ties in whatever order the search leaves them.
RECURSIVE Nearest(_, _, _, _)
Nearest(fitX, q, rem, k) ==
    IF k = 0 THEN {<<>>}
    ELSE LET closest == {i \in rem : \A j \in rem :
                            DistLeq(cosine_distance(q, fitX[i + 1]),
                                    cosine_distance(q, fitX[j + 1]))}
         IN UNION {{<<i>> \o s : s \in Nearest(fitX, q, rem \ {i}, k - 1)} :
                   i \in closest}

\* (a check against the n_neighbors given to the constructor)
kneighbors_rejects_above_default(nn, k) ==
    k <= 0 \/ k > Len(nn.fit_X) \/ k > nn.n_neighbors

\* (a check that lets a request for more than n_samples_fit through)
kneighbors_rejects_nonpositive(nn, k) == k <= 0

\* The argument check that opens kneighbors: ValueError unless
\* 0 < n_neighbors <= n_samples_fit.
kneighbors_rejects(nn, k) == k <= 0 \/ k > Len(nn.fit_X)

\* nn.kneighbors(q_emb, n_neighbors=k) -> (distances, indices), first row
kneighbors(nn, q, k) ==
    LET n == Len(nn.fit_X) IN
    IF kneighbors_rejects(nn, k)
    THEN {[raised |-> TRUE, indices |-> <<>>, distances |-> <<>>]}
    ELSE {[raised |-> FALSE, indices |-> s,
           distances |-> [j \in 1..k |-> cosine_distance(q, nn.fit_X[s[j] + 1])]] :
          s \in Nearest(nn.fit_X, q, 0..(n - 1), k)}

----------------------------------------------------------------------------
(* build_nn_index *)

\* [get_embedding(doc) for doc in documents]; X = np.array(embeddings);
\* nn.fit(X); return nn, X, documents.  The first failing call ends the build.
build_nn_index(documents) ==
    LET n == Len(documents)
        log(m) == [j \in 1..m |-> Call("get_embedding", "build_nn_index")]
    IN  {[raised |-> TRUE, exc |-> "embedding", calls |-> log(i),
          nn |-> NoneIndex, X |-> <<>>, documents |-> <<>>] :
         i \in {m \in 1..n : \E e \in get_embedding(documents[m]) : e.raised}}
        \cup
        {[raised |-> nn_fit(X).raised,
          exc |-> IF nn_fit(X).raised THEN "fit" ELSE "",
          calls |-> log(n) \o <<Call("fit", "build_nn_index")>>,
          nn |-> nn_fit(X).nn,
          X |-> IF nn_fit(X).raised THEN <<>> ELSE X,
          documents |-> IF nn_fit(X).raised THEN <<>> ELSE documents] :
         X \in {x \in [1..n -> Vecs] : \A m \in 1..n :
                   [raised |-> FALSE, embedding |-> x[m]] \in get_embedding(documents[m])}}

----------------------------------------------------------------------------
(* query_rag *)

DefaultTopK == 5

Context(documents, indices) ==
    Join(Newline, [j \in 1..Len(indices) |-> documents[indices[j] + 1]])

QResult(raised, exc, log, indices, distances, response) ==
    [raised |-> raised, exc |-> exc, calls |-> log, indices |-> indices,
     distances |-> distances, response |-> response]

query_rag(question, nn, X, documents, top_k) ==
    LET e1 == Call("get_embedding", "query_rag")
        e2 == Call("kneighbors", "query_rag")
        e3 == Call("chat", "query_rag")
    IN UNION {
        IF q.raised
        THEN {QResult(TRUE, "embedding", <<e1>>, <<>>, <<>>, "")}
        ELSE UNION {
            IF r.raised
            THEN {QResult(TRUE, "neighbors", <<e1, e2>>, <<>>, <<>>, "")}
            ELSE {IF c.raised
                  THEN QResult(TRUE, "chat", <<e1, e2, e3>>, r.indices, r.distances, "")
                  ELSE QResult(FALSE, "", <<e1, e2, e3>>, r.indices, r.distances, c.content) :
                  c \in chat_completion(Context(documents, r.indices), question)} :
            r \in kneighbors(nn, q.embedding, top_k)} :
        q \in get_embedding(question)}

----------------------------------------------------------------------------
(* load_and_index_data under st.cache_resource *)

NoneResult ==
    [nn |-> NoneIndex, X |-> <<>>, docs |-> <<>>, data_loaded |-> FALSE,
     num_records |-> 0]

EmptyCache == [filled |-> FALSE, value |-> NoneResult]

\* The function body: every exception ends in the "not loaded" tuple.
load_and_index_data(file) ==
    LET rd == Call("read_excel", "load_and_index_data") IN
    IF ~file.readable
    THEN {[value |-> NoneResult, calls |-> <<rd>>, exc |-> "read_excel"]}
    ELSE {[value |-> IF b.raised THEN NoneResult
                     ELSE [nn |-> b.nn, X |-> b.X, docs |-> b.documents,
                           data_loaded |-> TRUE,
                           num_records |-> Len(file.df.rows)],
           calls |-> <<rd>> \o b.calls,
           exc |-> b.exc] :
          b \in build_nn_index(prepare_documents(file.df))}

\* (a cache that keeps only successful builds)
cache_store_loaded_only(value) == [filled |-> value.data_loaded, value |-> value]

\* What the cache holds after a call that ran the body and got `value`.
cache_store(value) == [filled |-> TRUE, value |-> value]

\* (the function without its decorator: the body runs on every call)
uncached_load(c, file) ==
    {[cache |-> cache_store(o.value), value |-> o.value, calls |-> o.calls,
      ran |-> TRUE, exc |-> o.exc] :
     o \in load_and_index_data(file)}

\* A call of the decorated function: a hit returns the stored value without
\* running the body; a miss runs it and stores what it returned.
cached_load(c, file) ==
    IF c.filled
    THEN {[cache |-> c, value |-> c.value, calls |-> <<>>, ran |-> FALSE, exc |-> ""]}
    ELSE {[cache |-> cache_store(o.value), value |-> o.value, calls |-> o.calls,
           ran |-> TRUE, exc |-> o.exc] :
          o \in load_and_index_data(file)}

----------------------------------------------------------------------------
(* The page *)

Questions == {"q1", "q2"}
Inputs == Questions \cup {""}

\* bool(user_input)
AlwaysTruthy(text) == TRUE

IsTruthy(text) == text # ""

ErrorText(e) == "I apologize, but I encountered an error: " \o e

\* (the entries counted instead of the pairs)
QueriesMetricEntries(present, h) == Len(IF present THEN h ELSE <<>>)

\* len(st.session_state.get('history', [])) // 2
QueriesMetric(present, h) == Len(IF present THEN h ELSE <<>>) \div 2

Sat(n) == IF n > MaxBuilds THEN MaxBuilds ELSE n
Ran(L) == IF L.ran THEN 1 ELSE 0

\* prior: len(history) when the event arrived
Event(kind, input, outcome, prior) ==
    [kind |-> kind, input |-> input, outcome |-> outcome, prior |-> prior]
Notice(success, error) == [success |-> success, error |-> error]

NoCall == [fn |-> "none"]

\* What the caller of query_rag sees of a call: the response or the exception
\* (the retrieved indices stay local to query_rag).
Caught(o) == [raised |-> o.raised, exc |-> o.exc, calls |-> o.calls,
              response |-> o.response]

\* The same set, {Caught(o) : o \in query_rag(...)}, without listing the
\* orders of the retrieved documents (QueryRagCaughtAgrees checks the equality).
query_rag_caught(question, nn, X, documents, top_k) ==
    LET e1 == Call("get_embedding", "query_rag")
        e2 == Call("kneighbors", "query_rag")
        e3 == Call("chat", "query_rag")
        emb == get_embedding(question)
    IN  {[raised |-> TRUE, exc |-> "embedding", calls |-> <<e1>>, response |-> ""] :
         q \in {e \in emb : e.raised}}
        \cup
        (IF \A e \in emb : e.raised THEN {}
         ELSE IF kneighbors_rejects(nn, top_k)
         THEN {[raised |-> TRUE, exc |-> "neighbors", calls |-> <<e1, e2>>,
                response |-> ""]}
         ELSE {[raised |-> c.raised, exc |-> IF c.raised THEN "chat" ELSE "",
                calls |-> <<e1, e2, e3>>, response |-> c.content] :
               c \in chat_completion(<<>>, question)})

\* try: response = query_rag(...); append(("bot", response))
\* except Exception as e: append(("bot", f"... error: {str(e)}"))
BotEntry(r) == <<"bot", IF r.raised THEN ErrorText(r.exc) ELSE r.response>>

\* (an except branch that appends nothing)
HistoryAfterQueryUnhandled(h, q, r) ==
    IF r.raised THEN h \o <<(<<"user", q>>)>>
    ELSE h \o <<(<<"user", q>>), (<<"bot", r.response>>)>>

\* history.append(("user", user_input)), then the try/except around query_rag
HistoryAfterQuery(h, q, r) == h \o <<(<<"user", q>>), BotEntry(r)>>

\* A browser opens the page: a new session, whose session_state is empty.
PageLoad ==
    \E L \in cached_load(cache, excel) :
        /\ cache' = L.cache
        /\ buildCount' = Sat(buildCount + Ran(L))
        /\ buildError' = IF L.ran THEN L.exc ELSE buildError
        /\ queries' = QueriesMetric(FALSE, <<>>)
        /\ notice' = Notice(L.value.data_loaded, FALSE)
        /\ hasHistory' = TRUE
        /\ history' = <<>>
        /\ started' = TRUE
        /\ calls' = L.calls
        /\ accepted' = 0
        /\ lastEvent' = Event("page_load", "", "rendered", 0)
        /\ UNCHANGED <<excel, call>>

\* (a reset that also clears the resource cache)
NewSessionClearingCache ==
    /\ started
    /\ \E L \in cached_load(EmptyCache, excel) :
        /\ cache' = L.cache
        /\ buildCount' = Sat(buildCount + Ran(L))
        /\ buildError' = IF L.ran THEN L.exc ELSE buildError
        /\ history' = <<>>
        /\ hasHistory' = TRUE
        /\ queries' = QueriesMetric(TRUE, <<>>)
        /\ notice' = Notice(L.value.data_loaded, FALSE)
        /\ calls' = L.calls
        /\ accepted' = 0
        /\ lastEvent' = Event("new_session", "", "reset", Len(history))
        /\ UNCHANGED <<excel, started, call>>

\* The "New Session" button: the run it triggers empties the history and
\* calls st.rerun() before reaching the load; the rerun draws the page.
NewSession ==
    /\ started
    /\ \E L \in cached_load(cache, excel) :
        /\ cache' = L.cache
        /\ buildCount' = Sat(buildCount + Ran(L))
        /\ buildError' = IF L.ran THEN L.exc ELSE buildError
        /\ history' = <<>>
        /\ hasHistory' = TRUE
        /\ queries' = QueriesMetric(TRUE, <<>>)
        /\ notice' = Notice(L.value.data_loaded, FALSE)
        /\ calls' = L.calls
        /\ accepted' = 0
        /\ lastEvent' = Event("new_session", "", "reset", Len(history))
        /\ UNCHANGED <<excel, started, call>>

\* The form is submitted with user_input = "": "if submit and user_input" is false.
SubmitEmpty ==
    /\ started
    /\ ~IsTruthy("")
    /\ \E L \in cached_load(cache, excel) :
        /\ cache' = L.cache
        /\ buildCount' = Sat(buildCount + Ran(L))
        /\ buildError' = IF L.ran THEN L.exc ELSE buildError
        /\ queries' = QueriesMetric(hasHistory, history)
        /\ notice' = Notice(L.value.data_loaded, FALSE)
        /\ calls' = L.calls
        /\ lastEvent' = Event("submit", "", "ignored", Len(history))
        /\ UNCHANGED <<excel, hasHistory, history, started, accepted, call>>

\* The form is submitted with a question while data_loaded is false.
SubmitBlocked(q) ==
    /\ started
    /\ IsTruthy(q)
    /\ \E L \in cached_load(cache, excel) :
        /\ ~L.value.data_loaded
        /\ cache' = L.cache
        /\ buildCount' = Sat(buildCount + Ran(L))
        /\ buildError' = IF L.ran THEN L.exc ELSE buildError
        /\ queries' = QueriesMetric(hasHistory, history)
        /\ notice' = Notice(FALSE, TRUE)
        /\ calls' = L.calls
        /\ lastEvent' = Event("submit", q, "blocked", Len(history))
        /\ UNCHANGED <<excel, hasHistory, history, started, accepted, call>>

\* The form is submitted with a question while data_loaded is true: the
\* question and the answer (or the error text) are appended, then st.rerun()
\* draws the page again.
SubmitQuery(q) ==
    /\ started
    /\ IsTruthy(q)
    /\ Len(history) < 2 * MaxQueries
    /\ \E L \in cached_load(cache, excel) :
        /\ L.value.data_loaded
        /\ \E r \in query_rag_caught(q, L.value.nn, L.value.X, L.value.docs,
                                      DefaultTopK) :
           \E L2 \in cached_load(L.cache, excel) :
            /\ cache' = L2.cache
            /\ buildCount' = Sat(buildCount + Ran(L) + Ran(L2))
            /\ buildError' = IF L2.ran THEN L2.exc ELSE IF L.ran THEN L.exc ELSE buildError
            /\ history' = HistoryAfterQuery(history, q, r)
            /\ queries' = QueriesMetric(TRUE, history')
            /\ notice' = Notice(L2.value.data_loaded, FALSE)
            /\ calls' = L.calls \o r.calls \o L2.calls
            /\ accepted' = accepted + 1
            /\ lastEvent' = Event("submit", q,
                                  IF r.raised THEN r.exc ELSE "answered",
                                  Len(history))
            /\ UNCHANGED <<excel, hasHistory, started, call>>

----------------------------------------------------------------------------
(* Spec: the page *)

ColName(j) == <<"c">> \o NatStr(j)
Columns(c) == [j \in 1..c |-> ColName(j)]
ColSet(c) == {ColName(j) : j \in 1..c}

\* A sheet of n rows: a row number and a fixed text.
Sheet(n) ==
    [columns |-> Columns(2),
     rows |-> [i \in 1..n |->
                 [c \in ColSet(2) |->
                     IF c = ColName(1) THEN IntV(i) ELSE StrV(<<"a">>)]]]

Files ==
    {[readable |-> FALSE, df |-> Sheet(0)]}
        \cup {[readable |-> TRUE, df |-> Sheet(n)] : n \in 0..MaxRows}

Init ==
    /\ excel \in Files
    /\ cache = EmptyCache
    /\ hasHistory = FALSE
    /\ history = <<>>
    /\ started = FALSE
    /\ queries = 0
    /\ notice = Notice(FALSE, FALSE)
    /\ calls = <<>>
    /\ buildCount = 0
    /\ accepted = 0
    /\ buildError = ""
    /\ lastEvent = Event("none", "", "none", 0)
    /\ call = NoCall

Next ==
    \/ PageLoad
    \/ NewSession
    \/ SubmitEmpty
    \/ \E q \in Inputs : SubmitBlocked(q)
    \/ \E q \in Inputs : SubmitQuery(q)

Spec == Init /\ [][Next]_vars

----------------------------------------------------------------------------
(* SpecDocs: prepare_documents on bounded data frames *)

CellValues == {IntV(0), IntV(-12), StrV(<<"a", " ", "|", " ", "b">>)}

\* The data frames of c columns and n rows over CellValues.
Frames(c, n) ==
    {[columns |-> Columns(c), rows |-> rs] : rs \in [1..n -> [ColSet(c) -> CellValues]]}

Idle ==
    /\ cache = EmptyCache
    /\ hasHistory = FALSE
    /\ history = <<>>
    /\ started = FALSE
    /\ queries = 0
    /\ notice = Notice(FALSE, FALSE)
    /\ calls = <<>>
    /\ buildCount = 0
    /\ accepted = 0
    /\ buildError = ""
    /\ lastEvent = Event("none", "", "none", 0)

InitDocs ==
    /\ \E c \in 1..MaxCols, n \in 0..MaxDocRows : \E f \in Frames(c, n) :
          excel = [readable |-> TRUE, df |-> f]
    /\ call = NoCall
    /\ Idle

CallPrepareDocuments ==
    /\ call = NoCall
    /\ call' = [fn |-> "prepare_documents", result |-> prepare_documents(excel.df)]
    /\ UNCHANGED <<excel, cache, hasHistory, history, started, queries, notice,
                   calls, buildCount, accepted, buildError, lastEvent>>

NextDocs == CallPrepareDocuments

SpecDocs == InitDocs /\ [][NextDocs]_vars

----------------------------------------------------------------------------
(* SpecIndex: query_rag with an explicit top_k on bounded index bundles *)

VecList == <<(<<3, 0>>), (<<1, 1>>), (<<-1, 1>>)>>

\* Embedding matrices of n documents: all of them up to SmallDocs documents,
\* beyond that the ones that run through VecList forwards or backwards.
IndexMatrices(n) ==
    IF n <= SmallDocs THEN [1..n -> Vecs]
    ELSE {[i \in 1..n |-> VecList[((o + s * i) % Len(VecList)) + 1]] :
          o \in 0..(Len(VecList) - 1), s \in {1, Len(VecList) - 1}}

\* What load_and_index_data returns when the embedding calls return X.
Bundle(n, X) ==
    [nn |-> nn_fit(X).nn, X |-> X, docs |-> prepare_documents(Sheet(n)),
     data_loaded |-> TRUE, num_records |-> n]

InitIndex ==
    /\ \E n \in 1..MaxDocs : \E X \in IndexMatrices(n) :
          /\ excel = [readable |-> TRUE, df |-> Sheet(n)]
          /\ cache = cache_store(Bundle(n, X))
    /\ call = NoCall
    /\ hasHistory = FALSE
    /\ history = <<>>
    /\ started = FALSE
    /\ queries = 0
    /\ notice = Notice(FALSE, FALSE)
    /\ calls = <<>>
    /\ buildCount = 1
    /\ accepted = 0
    /\ buildError = ""
    /\ lastEvent = Event("none", "", "none", 0)

CallQueryRag(question, top_k) ==
    /\ call = NoCall
    /\ \E o \in query_rag(question, cache.value.nn, cache.value.X,
                          cache.value.docs, top_k) :
          call' = [fn |-> "query_rag", question |-> question, top_k |-> top_k,
                   result |-> o]
    /\ UNCHANGED <<excel, cache, hasHistory, history, started, queries, notice,
                   calls, buildCount, accepted, buildError, lastEvent>>

NextIndex == \E question \in Questions, top_k \in 0..MaxK : CallQueryRag(question, top_k)

SpecIndex == InitIndex /\ [][NextIndex]_vars

\* query_rag_caught lists exactly what a caller can see of query_rag.
QueryRagCaughtAgrees ==
    call = NoCall =>
    \A question \in Questions, top_k \in 0..MaxK :
        query_rag_caught(question, cache.value.nn, cache.value.X,
                         cache.value.docs, top_k)
          = {Caught(o) : o \in query_rag(question, cache.value.nn, cache.value.X,
                                         cache.value.docs, top_k)}

----------------------------------------------------------------------------
(* Claims about the page (Spec) *)

ApiCalls(log) == {i \in 1..Len(log) : log[i].fn \in {"get_embedding", "chat"}}
BuildCalls(log) ==
    {i \in 1..Len(log) : log[i].caller \in {"load_and_index_data", "build_nn_index"}}

IsSubmit(e) == e.kind = "submit"
IsQuestion(e) == e.kind = "submit" /\ e.input # ""

\* C1: once an embedding call has failed during the index build, data_loaded
\* is false and stays memoized, and every later submission of a question draws
\* the "data not loaded" error, makes no call at all (no embedding, no chat, no
\* second build) and leaves the history as it was.
C1_BuildFailureBlocksQueries ==
    [][ /\ buildError' = "embedding" =>
              /\ cache'.filled
              /\ ~cache'.value.data_loaded
        /\ (buildError = "embedding" /\ IsQuestion(lastEvent')) =>
              /\ notice'.error
              /\ lastEvent'.outcome = "blocked"
              /\ calls' = <<>>
              /\ buildCount' = buildCount
              /\ cache' = cache
              /\ history' = history
              /\ hasHistory' = hasHistory ]_vars

C1_Witness ==
    /\ buildError = "embedding"
    /\ IsQuestion(lastEvent)
    /\ lastEvent.outcome = "blocked"
    /\ notice.error
    /\ buildCount = 1

\* C2: when the embedding call or the chat call of an accepted query fails,
\* the history gains the user entry and one bot entry with the error text,
\* what was in it stays, and the memoized index is untouched; a query whose
\* calls succeed gains the user entry and the chat response.
C2_QueryFailureInline ==
    [][ IsQuestion(lastEvent') /\ lastEvent'.outcome \in {"embedding", "chat", "answered"} =>
          /\ cache.filled /\ cache.value.data_loaded
          /\ cache' = cache
          /\ Len(history') = Len(history) + 2
          /\ SubSeq(history', 1, Len(history)) = history
          /\ history'[Len(history) + 1] = <<"user", lastEvent'.input>>
          /\ history'[Len(history) + 2][1] = "bot"
          /\ IF lastEvent'.outcome = "answered"
             THEN history'[Len(history) + 2][2] \in Answers
             ELSE history'[Len(history) + 2][2]
                    = "I apologize, but I encountered an error: " \o lastEvent'.outcome
        ]_vars

\* a failed query followed by an answered one
C2_Witness ==
    /\ Len(history) = 4
    /\ history[2] = <<"bot", "I apologize, but I encountered an error: chat">>
    /\ history[4][2] \in Answers
    /\ lastEvent.outcome = "answered"

\* C3: submitting the form with an empty question makes no call and leaves
\* the history as it was, whatever the state.
C3_EmptySubmitIgnored ==
    [][ (IsSubmit(lastEvent') /\ lastEvent'.input = "") =>
          /\ calls' = <<>>
          /\ history' = history
          /\ hasHistory' = hasHistory
          /\ accepted' = accepted ]_vars

C3_Witness ==
    /\ IsSubmit(lastEvent)
    /\ lastEvent.input = ""
    /\ cache.value.data_loaded
    /\ Len(history) = 2

\* C4: the index is built on the first access and at most once; once the
\* cache is filled every later run gets the same tuple without a dataset read
\* or a document embedding.
C4_BuildOnceMemoized ==
    [][ /\ buildCount' <= 1
        /\ cache'.filled
        /\ buildCount' = 1
        /\ cache.filled =>
              /\ cache' = cache
              /\ BuildCalls(calls') = {}
              /\ buildCount' = buildCount ]_vars

C4_Witness ==
    /\ buildCount = 1
    /\ cache.value.data_loaded
    /\ lastEvent.kind = "new_session"
    /\ lastEvent.prior = 4

\* C5: "New Session" empties the history and leaves the memoized tuple
\* (index, matrix, documents, data_loaded, num_records) as it was, making no
\* embedding or chat call.
C5_ResetKeepsIndex ==
    [][ lastEvent'.kind = "new_session" =>
          /\ history' = <<>>
          /\ hasHistory'
          /\ cache' = cache
          /\ ApiCalls(calls') = {} ]_vars

C5_Witness ==
    /\ lastEvent.kind = "new_session"
    /\ lastEvent.prior > 0
    /\ history = <<>>
    /\ cache.value.data_loaded

\* C10: after every event the history has even length and alternates user
\* and bot entries, and the "Queries" metric, len(history) // 2, is the
\* number of queries accepted since the history was last emptied.
C10_HistoryAlternates ==
    /\ Len(history) % 2 = 0
    /\ \A i \in 1..Len(history) :
          /\ history[i][1] = (IF i % 2 = 1 THEN "user" ELSE "bot")
          /\ i % 2 = 1 => history[i][2] \in Questions
    /\ Len(history) \div 2 = accepted
    /\ queries = accepted

C10_Witness ==
    /\ Len(history) = 4
    /\ accepted = 2
    /\ queries = 2
    /\ history[2][2] = "I apologize, but I encountered an error: embedding"

\* C8: every accepted query makes exactly one question-embedding call, then
\* the neighbor lookup, then (the embedding having succeeded) exactly one chat
\* call; after a failed embedding nothing else is called.  Nothing is reused
\* from an earlier identical question.
C8_FullPipelineEveryQuery ==
    [][ (IsQuestion(lastEvent') /\ cache.filled /\ cache.value.data_loaded) =>
          IF lastEvent'.outcome = "embedding"
          THEN calls' = <<Call("get_embedding", "query_rag")>>
          ELSE calls' = <<Call("get_embedding", "query_rag"),
                          Call("kneighbors", "query_rag"),
                          Call("chat", "query_rag")>> ]_vars

\* C11: the page always calls query_rag with the default top_k = 5, so over a
\* readable sheet of N rows, 1 <= N < 5, the build succeeds whenever its
\* embedding calls do (fit accepts fewer than 5 samples), and every accepted
\* question ends as an inline error: the lookup for 5 neighbors fails as soon
\* as the question is embedded, no chat call is made, no answer is ever shown.
C11_SmallSheetNeverAnswers ==
    [][ (excel.readable /\ 1 <= Len(excel.df.rows) /\ Len(excel.df.rows) < 5) =>
          /\ cache'.filled
          /\ buildError' \in {"", "embedding"}
          /\ buildError' = "" =>
                /\ cache'.value.data_loaded
                /\ cache'.value.num_records = Len(excel.df.rows)
                /\ Len(cache'.value.nn.fit_X) = Len(excel.df.rows)
          /\ (IsQuestion(lastEvent') /\ cache.filled /\ cache.value.data_loaded) =>
                /\ lastEvent'.outcome \in {"embedding", "neighbors"}
                /\ \A i \in 1..Len(calls') : calls'[i].fn # "chat"
                /\ calls'[1] = Call("get_embedding", "query_rag")
                /\ Len(calls') = 2 =>
                      /\ calls'[2] = Call("kneighbors", "query_rag")
                      /\ lastEvent'.outcome = "neighbors"
                /\ history'[Len(history')]
                      = <<"bot", "I apologize, but I encountered an error: "
                                    \o lastEvent'.outcome>>
          /\ \A i \in 1..Len(history') : history'[i][2] \notin Answers ]_vars

\* four rows indexed, two questions asked, both stopped at the lookup
C11_Witness ==
    /\ excel.readable
    /\ Len(excel.df.rows) = 4
    /\ cache.value.data_loaded
    /\ Len(history) = 4
    /\ history[2] = <<"bot", "I apologize, but I encountered an error: neighbors">>
    /\ history[4] = <<"bot", "I apologize, but I encountered an error: neighbors">>
    /\ lastEvent.outcome = "neighbors"
    /\ calls = <<Call("get_embedding", "query_rag"), Call("kneighbors", "query_rag")>>

----------------------------------------------------------------------------
(* Claims about query_rag (SpecIndex) *)

Queried == call.fn = "query_rag"
\* the embedding of the question succeeded, so kneighbors was called
LookupReached == Queried /\ Len(call.result.calls) >= 2
Indexed == Len(cache.value.nn.fit_X)

\* cos(q, x) >= cos(q, y), without square roots
CloserOrEqual(q, x, y) ==
    LET dx == q[1] * x[1] + q[2] * x[2]
        dy == q[1] * y[1] + q[2] * y[2]
        nx == x[1] * x[1] + x[2] * x[2]
        ny == y[1] * y[1] + y[2] * y[2]
        sq(d) == IF d < 0 THEN -(d * d) ELSE d * d
    IN  sq(dx) * ny >= sq(dy) * nx

\* `ix` are k distinct indices in [0, N), in non-decreasing distance from
\* some question vector, and no document left out is closer than one returned.
KNearestOf(ix, k) ==
    /\ Len(ix) = k
    /\ \A j \in 1..k : ix[j] \in 0..(Indexed - 1)
    /\ \A i, j \in 1..k : i # j => ix[i] # ix[j]
    /\ \E q \in Vecs :
          LET x(i) == cache.value.nn.fit_X[i + 1] IN
          /\ \A j \in 1..(k - 1) : CloserOrEqual(q, x(ix[j]), x(ix[j + 1]))
          /\ \A i \in 0..(Indexed - 1) :
                (\A j \in 1..k : ix[j] # i) => CloserOrEqual(q, x(ix[k]), x(i))

SortedDistances(ds) ==
    \A j \in 1..(Len(ds) - 1) : ds[j].num * ds[j + 1].den >= ds[j + 1].num * ds[j].den

\* C6 as stated: whatever k >= 1 is asked of an index over N documents, the
\* lookup returns exactly k distinct indices in [0, N), distances non-decreasing.
C6_Original ==
    (LookupReached /\ call.top_k >= 1) =>
        /\ call.result.exc # "neighbors"
        /\ KNearestOf(call.result.indices, call.top_k)
        /\ SortedDistances(call.result.distances)

\* C6 amended: for 1 <= k <= N the lookup returns exactly k distinct indices
\* in [0, N), distances non-decreasing; for k > N (or k < 1) it raises and
\* returns nothing.
C6_KNearestWithinN ==
    LookupReached =>
        IF 1 <= call.top_k /\ call.top_k <= Indexed
        THEN /\ call.result.exc # "neighbors"
             /\ KNearestOf(call.result.indices, call.top_k)
             /\ Len(call.result.distances) = call.top_k
             /\ SortedDistances(call.result.distances)
        ELSE /\ call.result.raised
             /\ call.result.exc = "neighbors"
             /\ call.result.indices = <<>>

\* three of six documents returned, the first two at the same distance
C6_Witness ==
    /\ LookupReached
    /\ Indexed = 6
    /\ call.top_k = 3
    /\ Len(call.result.indices) = 3
    /\ call.result.distances[1] = call.result.distances[2]
    /\ call.result.distances[2] # call.result.distances[3]
    /\ call.result.indices[1] > call.result.indices[2]

\* C9 as stated: the index holds a maximum of 5 neighbors, and a query for
\* more than 5 fails or returns at most 5 indices.
C9_Original ==
    (LookupReached /\ call.top_k > NNeighbors) =>
        \/ call.result.exc = "neighbors"
        \/ Len(call.result.indices) <= NNeighbors

\* C9 amended: the 5 given at build time is the default neighbor count, not
\* a maximum: a query for k > 5 neighbors returns exactly k indices when the
\* index holds at least k documents, and fails only when it holds fewer.
C9_DefaultNotMaximum ==
    /\ cache.value.nn.n_neighbors = 5
    /\ (LookupReached /\ call.top_k > NNeighbors) =>
          IF call.top_k <= Indexed
          THEN /\ call.result.exc # "neighbors"
               /\ Len(call.result.indices) = call.top_k
          ELSE /\ call.result.exc = "neighbors"
               /\ call.result.indices = <<>>

C9_Witness ==
    /\ LookupReached
    /\ call.top_k = 6
    /\ Len(call.result.indices) = 6
    /\ ~call.result.raised

----------------------------------------------------------------------------
(* Claims about prepare_documents (SpecDocs) *)

Digits == {"0", "1", "2", "3", "4", "5", "6", "7", "8", "9"}

DigitValue(c) ==
    CASE c = "0" -> 0 [] c = "1" -> 1 [] c = "2" -> 2 [] c = "3" -> 3
      [] c = "4" -> 4 [] c = "5" -> 5 [] c = "6" -> 6 [] c = "7" -> 7
      [] c = "8" -> 8 [] c = "9" -> 9

\* int(text) for text matching -?[0-9]+
RECURSIVE NaturalOf(_)
NaturalOf(text) ==
    IF Len(text) = 0 THEN 0
    ELSE 10 * NaturalOf(SubSeq(text, 1, Len(text) - 1)) + DigitValue(text[Len(text)])

IsNumeral(text) ==
    LET body == IF Len(text) > 0 /\ text[1] = "-" THEN Tail(text) ELSE text
    IN  Len(body) > 0 /\ \A i \in 1..Len(body) : body[i] \in Digits

IntegerOf(text) ==
    IF text[1] = "-" THEN -NaturalOf(Tail(text)) ELSE NaturalOf(text)

\* the length of the longest prefix of text that reads -?[0-9]*
RECURSIVE NumeralLen(_, _)
NumeralLen(text, at) ==
    IF at > Len(text) THEN at - 1
    ELSE IF text[at] \in Digits \/ (at = 1 /\ text[at] = "-")
    THEN NumeralLen(text, at + 1)
    ELSE at - 1

\* text shows the cell value v
Shows(text, v) ==
    IF v.t = "int" THEN IsNumeral(text) /\ IntegerOf(text) = v.i ELSE text = v.s

\* doc reads "<col j>: <value j> | <col j+1>: <value j+1> | ..." to its end
RECURSIVE ReadsFrom(_, _, _, _)
ReadsFrom(doc, cols, row, j) ==
    LET head == cols[j] \o <<":", " ">>
        rest == SubSeq(doc, Len(head) + 1, Len(doc))
        v == row[cols[j]]
        vlen == IF v.t = "int" THEN NumeralLen(rest, 1) ELSE Len(v.s)
    IN  /\ Len(doc) >= Len(head)
        /\ SubSeq(doc, 1, Len(head)) = head
        /\ Len(rest) >= vlen
        /\ Shows(SubSeq(rest, 1, vlen), v)
        /\ IF j = Len(cols)
           THEN Len(rest) = vlen
           ELSE /\ Len(rest) >= vlen + 3
                /\ SubSeq(rest, vlen + 1, vlen + 3) = <<" ", "|", " ">>
                /\ ReadsFrom(SubSeq(rest, vlen + 4, Len(rest)), cols, row, j + 1)

\* C7: prepare_documents returns one document per row, in row order; document
\* i is the C fragments "<column>: <value>" of row i in column order, joined
\* by " | "; a frame without rows gives the empty list.
C7_OneDocumentPerRow ==
    call.fn = "prepare_documents" =>
        /\ Len(call.result) = Len(excel.df.rows)
        /\ \A i \in 1..Len(excel.df.rows) :
              ReadsFrom(call.result[i], excel.df.columns, excel.df.rows[i], 1)

C7_Witness ==
    /\ call.fn = "prepare_documents"
    /\ Len(excel.df.columns) = 2
    /\ Len(call.result) = 2
    /\ excel.df.rows[1][ColName(1)] = IntV(-12)
    /\ excel.df.rows[1][ColName(2)].t = "str"
    /\ excel.df.rows[2][ColName(1)] = IntV(0)
    /\ call.result[1] # call.result[2]

====
